---- MODULE Spec2Model ----
(***************************************************************************)
(* A model of the date-range library: the calendar arithmetic of           *)
(* dateutils/date_utils.rs, the generic DateRange of daterange/date_range.rs*)
(* and the period families built on it (annual, semi-annual, quarterly,    *)
(* monthly, semi-monthly, weekly, bi-weekly).                              *)
(*                                                                         *)
(* A NaiveDate is the record [year, month, day]. Date differences and      *)
(* `date + Duration::days(n)` go through the day number of the date        *)
(* (days since 1970-01-01), computed from the civil date and back.         *)
(***************************************************************************)
EXTENDS Integers, Sequences, FiniteSets, TLC

\* ------------------------------------------------------------------------
\* Bounds of the model
\* ------------------------------------------------------------------------

\* The constructors are called with every date of a window of InputDays days
\* that starts on FirstInput (it holds 2024-02-29 and every month end).
InputDays == 460

\* range_containing_date is queried for the dates up to NearDays days before
\* the start and after the end of the receiver ...
NearDays == 1

\* ... and for the two dates FarPeriods lengths of the receiver before its
\* start and after its end.
FarPeriods == 2

\* The loop of range_containing_date is followed until it has left MaxIter
\* different ranges.
MaxIter == 6

\* prior_n / next_n are called with every number 0..MaxN.
MaxN == 3

\* DateRange::new is called with every length 1..MaxLen (start <= end).
MaxLen == 8

\* The client follows prior()/next() up to MaxHops periods away from the
\* range the constructor returned.
MaxHops == 2

\* ranges_containing_span is asked for spans that reach up to MaxSpan lengths
\* of the receiver past their first date.
MaxSpan == 2

\* add_months and subtract_months are called with every number of months
\* -MaxMonths..MaxMonths.
MaxMonths == 25

\* add_years, subtract_years and with_year_safe are called with every number
\* of years -MaxYears..MaxYears.
MaxYears == 5

\* ------------------------------------------------------------------------
\* chrono: NaiveDate
\* ------------------------------------------------------------------------

Date(y, m, d) == [year |-> y, month |-> m, day |-> d]

is_leap_year(y) == (y % 4 = 0 /\ y % 100 # 0) \/ y % 400 = 0

days_in_month(y, m) ==
    IF m = 2 THEN (IF is_leap_year(y) THEN 29 ELSE 28)
    ELSE IF m \in {4, 6, 9, 11} THEN 30 ELSE 31

\* The day number of a civil date: days since 1970-01-01. The year counts
\* from March, so that the leap day is the last day of its year.
days_of_march_year(y, mp, day) ==
    (y \div 400) * 146097
        + (y % 400) * 365 + (y % 400) \div 4 - (y % 400) \div 100
        + (153 * mp + 2) \div 5 + day - 1
        - 719468

day_number(date) ==
    IF date.month <= 2
    THEN days_of_march_year(date.year - 1, date.month + 9, date.day)
    ELSE days_of_march_year(date.year, date.month - 3, date.day)

\* The civil date of a day number, found step by step: the 400-year era and
\* the day in it, the year of the era, the day of the March year, the month.
civil_of_month(y, m, d) == Date(IF m <= 2 THEN y + 1 ELSE y, m, d)

civil_of_mp(y, doy, mp) ==
    civil_of_month(y, IF mp < 10 THEN mp + 3 ELSE mp - 9,
                   doy - (153 * mp + 2) \div 5 + 1)

civil_of_doy(y, doy) == civil_of_mp(y, doy, (5 * doy + 2) \div 153)

civil_of_yoe(era, doe, yoe) ==
    civil_of_doy(yoe + era * 400,
                 doe - (365 * yoe + yoe \div 4 - yoe \div 100))

civil_of_doe(era, doe) ==
    civil_of_yoe(era, doe,
        (doe - doe \div 1460 + doe \div 36524 - doe \div 146096) \div 365)

civil_of_z(z) == civil_of_doe(z \div 146097, z % 146097)

date_of_day_number(n) == civil_of_z(n + 719468)

\* Option<T>: None is the empty sequence, Some(x) the sequence <<x>>.
None == << >>

Some(x) == << x >>

\* Option::unwrap; on None the evaluation fails, as the program panics.
unwrap(o) == o[1]

\* NaiveDate::from_ymd_opt: None for a date that does not exist.
from_ymd_opt(y, m, d) ==
    IF m \in 1..12 /\ d >= 1 /\ d <= days_in_month(y, m)
    THEN Some(Date(y, m, d))
    ELSE None

\* date + Duration::days(n) and date - Duration::days(n).
plus_days(date, n) == date_of_day_number(day_number(date) + n)

minus_days(date, n) == date_of_day_number(day_number(date) - n)

\* (a - b).num_days()
num_days(a, b) == day_number(a) - day_number(b)

\* The derived total order of NaiveDate.
date_le(a, b) == day_number(a) <= day_number(b)

date_lt(a, b) == day_number(a) < day_number(b)

\* NaiveDate::succ_opt / pred_opt (Some within the modelled years).
succ_opt(date) == Some(plus_days(date, 1))

pred_opt(date) == Some(minus_days(date, 1))

\* NaiveDate::with_day
with_day(date, d) == from_ymd_opt(date.year, date.month, d)

\* NaiveDate::checked_sub_months(Months::new(n)): the day is clamped to the
\* last day of the target month.
checked_sub_months(date, n) ==
    LET total == date.year * 12 + (date.month - 1) - n
        y     == total \div 12
        m     == (total % 12) + 1
        last  == days_in_month(y, m)
    IN  Some(Date(y, m, IF date.day < last THEN date.day ELSE last))

\* Datelike::weekday().num_days_from_monday(): 0 = Monday .. 6 = Sunday.
\* 1970-01-01 was a Thursday.
num_days_from_monday(date) == (day_number(date) + 3) % 7

\* ------------------------------------------------------------------------
\* usize
\* ------------------------------------------------------------------------

\* A usize value is two_pow_64_times * 2^64 + plus: a day count n >= 0 is
\* usize(n), and the cast of a negative i64 n is 2^64 + n (plus = n < 0).
usize(n) == [two_pow_64_times |-> 0, plus |-> n]

\* `n as usize` of an i64
i64_as_usize(n) ==
    IF n >= 0 THEN usize(n) ELSE [two_pow_64_times |-> 1, plus |-> n]

\* `u + k` on usize; a sum reaching 2^64 wraps to its low 64 bits (the
\* release build; the debug build panics there).
usize_add(u, k) ==
    LET s == u.plus + k
    IN  IF u.two_pow_64_times = 1 /\ s >= 0
        THEN usize(s)
        ELSE [u EXCEPT !.plus = s]

\* `u as i64` of a usize: the same 64 bits read as a signed number.
usize_as_i64(u) == u.plus

\* ------------------------------------------------------------------------
\* dateutils/date_utils.rs
\* ------------------------------------------------------------------------

first_day_of_month(date) == unwrap(from_ymd_opt(date.year, date.month, 1))

last_day_of_month(date) ==
    IF date.month = 12
    THEN minus_days(unwrap(from_ymd_opt(date.year + 1, 1, 1)), 1)
    ELSE minus_days(unwrap(from_ymd_opt(date.year, date.month + 1, 1)), 1)

add_days(date, days) == plus_days(date, days)

subtract_days(date, days) == minus_days(date, days)

\* The two while loops of add_months: <<year, month>> with month in 1..12.
RECURSIVE carry_months(_, _)
carry_months(year, month) ==
    IF month > 12 THEN carry_months(year + 1, month - 12)
    ELSE IF month < 1 THEN carry_months(year - 1, month + 12)
    ELSE << year, month >>

\* `date.day().min(last_day_of_month(..).day())` and the closing from_ymd_opt
clamped_to_month(ym, day) ==
    unwrap(from_ymd_opt(ym[1], ym[2],
        IF day < last_day_of_month(unwrap(from_ymd_opt(ym[1], ym[2], 1))).day
        THEN day
        ELSE last_day_of_month(unwrap(from_ymd_opt(ym[1], ym[2], 1))).day))

\* add_months going to the last day of the target month whatever the day.
add_months_to_month_end(date, months) ==
    clamped_to_month(carry_months(date.year, date.month + months), 31)

add_months(date, months) ==
    clamped_to_month(carry_months(date.year, date.month + months), date.day)

subtract_months(date, months) == add_months(date, -months)

add_years(date, years) == add_months(date, years * 12)

subtract_years(date, years) == subtract_months(date, years * 12)

last_day_of_month_year(month, year) ==
    IF month = 12
    THEN unwrap(pred_opt(unwrap(from_ymd_opt(year + 1, 1, 1)))).day
    ELSE unwrap(pred_opt(unwrap(from_ymd_opt(year, month + 1, 1)))).day

\* with_year_safe going on to the first day of the next month where the day
\* does not exist in the new year.
with_year_safe_rolling_over(date, year) ==
    IF from_ymd_opt(year, date.month, date.day) # None
    THEN unwrap(from_ymd_opt(year, date.month, date.day))
    ELSE unwrap(from_ymd_opt(year, date.month + 1, 1))

with_year_safe(date, year) ==
    IF from_ymd_opt(year, date.month, date.day) # None
    THEN unwrap(from_ymd_opt(year, date.month, date.day))
    ELSE unwrap(from_ymd_opt(year, date.month,
                             last_day_of_month_year(date.month, year)))

\* ------------------------------------------------------------------------
\* daterange/date_range.rs: the DateRange value
\* ------------------------------------------------------------------------

\* DateRange_len without the closing day: the span, not the inclusive count.
DateRange_len_exclusive(start_date, end_date) ==
    i64_as_usize(num_days(end_date, start_date))

\* `(end_date - start_date).num_days() as usize + 1`, the len of every
\* constructor.
DateRange_len(start_date, end_date) ==
    usize_add(i64_as_usize(num_days(end_date, start_date)), 1)

\* prior_fn / next_fn hold a function pointer: here the name of the function.
new(start, end) ==
    [start_date |-> start, end_date |-> end,
     len |-> DateRange_len(start, end),
     prior_fn |-> None, next_fn |-> None, start_day |-> None]

new_with_prior_next(start, end, prior_fn, next_fn) ==
    [start_date |-> start, end_date |-> end,
     len |-> DateRange_len(start, end),
     prior_fn |-> Some(prior_fn), next_fn |-> Some(next_fn),
     start_day |-> None]

new_with_prior_next_start_day(start, end, prior_fn, next_fn, start_day) ==
    [start_date |-> start, end_date |-> end,
     len |-> DateRange_len(start, end),
     prior_fn |-> Some(prior_fn), next_fn |-> Some(next_fn),
     start_day |-> start_day]

\* create_new_date_range with the navigation functions left out.
create_new_date_range_without_navigation(self, start, end) ==
    [start_date |-> start, end_date |-> end,
     len |-> DateRange_len(start, end),
     prior_fn |-> None, next_fn |-> None,
     start_day |-> self.start_day]

create_new_date_range(self, start, end) ==
    [start_date |-> start, end_date |-> end,
     len |-> DateRange_len(start, end),
     prior_fn |-> self.prior_fn, next_fn |-> self.next_fn,
     start_day |-> self.start_day]

\* DateRange::iter and Iterator::next of DateRangeIter: the item and the
\* iterator after the call.
iter(self) == [current |-> self.start_date, end |-> self.end_date]

DateRangeIter_next(it) ==
    IF date_lt(it.end, it.current)
    THEN << None, it >>
    ELSE << Some(it.current), [it EXCEPT !.current = plus_days(it.current, 1)] >>

\* The items of an iterator, up to its first None.
RECURSIVE collect(_, _)
collect(it, items) ==
    IF DateRangeIter_next(it)[1] = None
    THEN items
    ELSE collect(DateRangeIter_next(it)[2],
                 Append(items, unwrap(DateRangeIter_next(it)[1])))

\* DateRange::dates: `while current <= self.end_date() { dates.push(current);
\* current += Duration::days(1) }`
RECURSIVE dates_loop(_, _, _)
dates_loop(dates_so_far, current, end_date) ==
    IF date_le(current, end_date)
    THEN dates_loop(Append(dates_so_far, current), plus_days(current, 1), end_date)
    ELSE dates_so_far

dates(self) == dates_loop(<< >>, self.start_date, self.end_date)

\* Vec::get(index).copied(), index counting from 0
get(v, index) == IF index < Len(v) THEN Some(v[index + 1]) ELSE None

\* date_at answering with the last date for an index past the end.
date_at_clamped(self, index) ==
    IF index < Len(dates(self))
    THEN get(dates(self), index)
    ELSE Some(self.end_date)

date_at(self, index) == get(dates(self), index)

\* contains_date with the end date left out of the range.
contains_date_end_exclusive(self, date) ==
    /\ date_le(self.start_date, date)
    /\ date_lt(date, self.end_date)

contains_date(self, date) ==
    date_le(self.start_date, date) /\ date_le(date, self.end_date)

contains_range(self, date_range) ==
    /\ date_le(self.start_date, date_range.start_date)
    /\ date_le(date_range.end_date, self.end_date)

\* overlaps taking two ranges that share only a boundary day as apart.
overlaps_but_not_touching(self, date_range) ==
    /\ date_lt(self.start_date, date_range.end_date)
    /\ date_lt(date_range.start_date, self.end_date)

overlaps(self, date_range) ==
    /\ date_le(self.start_date, date_range.end_date)
    /\ date_le(date_range.start_date, self.end_date)

\* date_ranges.iter().any(|range| self.overlaps(range))
overlaps_any(self, date_ranges) ==
    \E i \in 1..Len(date_ranges) : overlaps(self, date_ranges[i])

\* PartialEq for DateRange
eq(a, b) == a.start_date = b.start_date /\ a.end_date = b.end_date

\* impl Ord for DateRange: self.start_date.cmp(&other.start_date)
cmp(a, b) ==
    IF date_lt(a.start_date, b.start_date) THEN "Less"
    ELSE IF date_lt(b.start_date, a.start_date) THEN "Greater"
    ELSE "Equal"

\* ------------------------------------------------------------------------
\* daterange/annual_date_range.rs
\* ------------------------------------------------------------------------

\* end_for_start without its case for Feb 29: the day before the clamped
\* anniversary.
AnnualDateRange_end_for_start_unclamped(start_date) ==
    minus_days(add_years(start_date, 1), 1)

AnnualDateRange_end_for_start(start_date) ==
    IF start_date.month = 2 /\ start_date.day = 29
    THEN unwrap(from_ymd_opt(start_date.year + 1, 2, 28))
    ELSE minus_days(add_years(start_date, 1), 1)

AnnualDateRange_with_start_date(start_date) ==
    new_with_prior_next(start_date,
                        AnnualDateRange_end_for_start(start_date),
                        "AnnualDateRange::prior", "AnnualDateRange::next")

\* with_end_date taking its end from the end rule instead of its argument.
AnnualDateRange_with_end_date_by_rule(end_date) ==
    new_with_prior_next(
        plus_days(subtract_years(end_date, 1), 1),
        AnnualDateRange_end_for_start(plus_days(subtract_years(end_date, 1), 1)),
        "AnnualDateRange::prior", "AnnualDateRange::next")

\* with_end_date going back a year from the day after the end.
AnnualDateRange_with_end_date_from_day_after(end_date) ==
    new_with_prior_next(subtract_years(plus_days(end_date, 1), 1),
                        end_date,
                        "AnnualDateRange::prior", "AnnualDateRange::next")

AnnualDateRange_with_end_date(end_date) ==
    new_with_prior_next(plus_days(subtract_years(end_date, 1), 1),
                        end_date,
                        "AnnualDateRange::prior", "AnnualDateRange::next")

AnnualDateRange_prior(date_range) ==
    LET start == subtract_years(date_range.start_date, 1)
        end   == AnnualDateRange_end_for_start(start)
    IN  new_with_prior_next(start, end,
                            "AnnualDateRange::prior", "AnnualDateRange::next")

\* next() moving the end a year on instead of taking it from the end rule.
AnnualDateRange_next_end_plus_a_year(date_range) ==
    new_with_prior_next(add_years(date_range.start_date, 1),
                        add_years(date_range.end_date, 1),
                        "AnnualDateRange::prior", "AnnualDateRange::next")

AnnualDateRange_next(date_range) ==
    LET start == add_years(date_range.start_date, 1)
        end   == AnnualDateRange_end_for_start(start)
    IN  new_with_prior_next(start, end,
                            "AnnualDateRange::prior", "AnnualDateRange::next")

\* ------------------------------------------------------------------------
\* daterange/semi_annual_date_range.rs
\* ------------------------------------------------------------------------

SemiAnnualDateRange_with_start_date(start_date) ==
    new_with_prior_next(start_date,
                        minus_days(add_months(start_date, 6), 1),
                        "SemiAnnualDateRange::prior",
                        "SemiAnnualDateRange::next")

SemiAnnualDateRange_with_end_date(end_date) ==
    new_with_prior_next(plus_days(subtract_months(end_date, 6), 1),
                        end_date,
                        "SemiAnnualDateRange::prior",
                        "SemiAnnualDateRange::next")

SemiAnnualDateRange_prior(date_range) ==
    LET start == subtract_months(date_range.start_date, 6)
        end   == subtract_months(date_range.end_date, 6)
    IN  new_with_prior_next(start, end,
                            "SemiAnnualDateRange::prior",
                            "SemiAnnualDateRange::next")

SemiAnnualDateRange_next(date_range) ==
    LET start == add_months(date_range.start_date, 6)
        end   == add_months(date_range.end_date, 6)
    IN  new_with_prior_next(start, end,
                            "SemiAnnualDateRange::prior",
                            "SemiAnnualDateRange::next")

\* ------------------------------------------------------------------------
\* daterange/quarterly_date_range.rs
\* ------------------------------------------------------------------------

QuarterlyDateRange_with_start_date(start_date) ==
    LET start == first_day_of_month(start_date)
        end   == last_day_of_month(add_months(first_day_of_month(start_date), 2))
    IN  new_with_prior_next(start, end,
                            "QuarterlyDateRange::prior",
                            "QuarterlyDateRange::next")

QuarterlyDateRange_with_end_date(end_date) ==
    LET start == subtract_months(first_day_of_month(end_date), 2)
        end   == last_day_of_month(end_date)
    IN  new_with_prior_next(start, end,
                            "QuarterlyDateRange::prior",
                            "QuarterlyDateRange::next")

QuarterlyDateRange_prior(date_range) ==
    LET start == subtract_months(date_range.start_date, 3)
        end   == last_day_of_month(
                     subtract_months(first_day_of_month(date_range.end_date), 3))
    IN  new_with_prior_next(start, end,
                            "QuarterlyDateRange::prior",
                            "QuarterlyDateRange::next")

\* QuarterlyDateRange::next with the end moved by three months as it is.
QuarterlyDateRange_next_end_by_months(date_range) ==
    new_with_prior_next(
        add_months(date_range.start_date, 3),
        add_months(date_range.end_date, 3),
        "QuarterlyDateRange::prior", "QuarterlyDateRange::next")

QuarterlyDateRange_next(date_range) ==
    LET start == add_months(date_range.start_date, 3)
        end   == last_day_of_month(
                     add_months(first_day_of_month(date_range.end_date), 3))
    IN  new_with_prior_next(start, end,
                            "QuarterlyDateRange::prior",
                            "QuarterlyDateRange::next")

\* ------------------------------------------------------------------------
\* daterange/monthly_date_range.rs
\* ------------------------------------------------------------------------

MonthlyDateRange_calculate_start_date_from_end_date(end_date, start_day) ==
    IF start_day = 1
    THEN unwrap(from_ymd_opt(end_date.year, end_date.month, 1))
    ELSE unwrap(checked_sub_months(unwrap(succ_opt(end_date)), 1))

MonthlyDateRange_with_end_date_and_start_day(end_date, start_day) ==
    new_with_prior_next_start_day(
        MonthlyDateRange_calculate_start_date_from_end_date(end_date, start_day),
        end_date,
        "MonthlyDateRange::prior", "MonthlyDateRange::next",
        Some(start_day))

MonthlyDateRange_with_end_date_on_first(end_date) ==
    MonthlyDateRange_with_end_date_and_start_day(end_date, 1)

MonthlyDateRange_prior(date_range) ==
    IF unwrap(date_range.start_day) = 1
    THEN LET new_end   == minus_days(date_range.start_date, 1)
             new_start == unwrap(with_day(new_end, 1))
         IN  new_with_prior_next_start_day(new_start, new_end,
                 "MonthlyDateRange::prior", "MonthlyDateRange::next",
                 date_range.start_day)
    ELSE LET new_start == subtract_months(date_range.start_date, 1)
             new_end   == minus_days(date_range.start_date, 1)
         IN  new_with_prior_next_start_day(new_start, new_end,
                 "MonthlyDateRange::prior", "MonthlyDateRange::next",
                 date_range.start_day)

\* MonthlyDateRange::next with the end moved by a month for every start day.
MonthlyDateRange_next_by_end_date(date_range) ==
    new_with_prior_next_start_day(
        plus_days(date_range.end_date, 1),
        add_months(date_range.end_date, 1),
        "MonthlyDateRange::prior", "MonthlyDateRange::next",
        date_range.start_day)

MonthlyDateRange_next(date_range) ==
    IF unwrap(date_range.start_day) = 1
    THEN LET new_start == plus_days(date_range.end_date, 1)
             new_end   == last_day_of_month(new_start)
         IN  new_with_prior_next_start_day(new_start, new_end,
                 "MonthlyDateRange::prior", "MonthlyDateRange::next",
                 date_range.start_day)
    ELSE LET new_start == plus_days(date_range.end_date, 1)
             new_end   == add_months(date_range.end_date, 1)
         IN  new_with_prior_next_start_day(new_start, new_end,
                 "MonthlyDateRange::prior", "MonthlyDateRange::next",
                 date_range.start_day)

\* ------------------------------------------------------------------------
\* daterange/semi_monthly_date_range.rs
\* ------------------------------------------------------------------------

FIFTEENTH_OF_MONTH == 15

SemiMonthlyDateRange_calculate_start_date_from_end_date(end_date) ==
    IF end_date.day = FIFTEENTH_OF_MONTH
    THEN unwrap(from_ymd_opt(end_date.year, end_date.month, 1))
    ELSE unwrap(from_ymd_opt(end_date.year, end_date.month,
                             FIFTEENTH_OF_MONTH + 1))

SemiMonthlyDateRange_with_end_date(end_date) ==
    new_with_prior_next(
        SemiMonthlyDateRange_calculate_start_date_from_end_date(end_date),
        end_date,
        "SemiMonthlyDateRange::prior", "SemiMonthlyDateRange::next")

\* SemiMonthlyDateRange::prior starting on the 1st whatever self starts on.
SemiMonthlyDateRange_prior_from_the_first(date_range) ==
    new_with_prior_next(
        first_day_of_month(minus_days(date_range.start_date, 1)),
        minus_days(date_range.start_date, 1),
        "SemiMonthlyDateRange::prior", "SemiMonthlyDateRange::next")

SemiMonthlyDateRange_prior(date_range) ==
    LET end_date   == minus_days(date_range.start_date, 1)
        start_date ==
            IF date_range.start_date.day = 1
            THEN unwrap(from_ymd_opt(end_date.year, end_date.month,
                                     FIFTEENTH_OF_MONTH + 1))
            ELSE unwrap(from_ymd_opt(end_date.year, end_date.month, 1))
    IN  new_with_prior_next(start_date, end_date,
            "SemiMonthlyDateRange::prior", "SemiMonthlyDateRange::next")

\* SemiMonthlyDateRange::next staying in the month of self's end.
SemiMonthlyDateRange_next_within_the_month(date_range) ==
    IF date_range.end_date.day = FIFTEENTH_OF_MONTH
    THEN new_with_prior_next(
             plus_days(date_range.end_date, 1),
             last_day_of_month(date_range.end_date),
             "SemiMonthlyDateRange::prior", "SemiMonthlyDateRange::next")
    ELSE new_with_prior_next(
             first_day_of_month(date_range.end_date),
             unwrap(with_day(date_range.end_date, FIFTEENTH_OF_MONTH)),
             "SemiMonthlyDateRange::prior", "SemiMonthlyDateRange::next")

SemiMonthlyDateRange_next(date_range) ==
    LET start_date ==
            IF date_range.end_date.day = FIFTEENTH_OF_MONTH
            THEN unwrap(from_ymd_opt(date_range.end_date.year,
                                     date_range.end_date.month,
                                     FIFTEENTH_OF_MONTH + 1))
            ELSE LET next_month == (date_range.end_date.month % 12) + 1
                     year == IF next_month = 1
                             THEN date_range.end_date.year + 1
                             ELSE date_range.end_date.year
                 IN  unwrap(from_ymd_opt(year, next_month, 1))
        end_date ==
            IF start_date.day = 1
            THEN unwrap(from_ymd_opt(start_date.year, start_date.month,
                                     FIFTEENTH_OF_MONTH))
            ELSE last_day_of_month(start_date)
    IN  new_with_prior_next(start_date, end_date,
            "SemiMonthlyDateRange::prior", "SemiMonthlyDateRange::next")

\* ------------------------------------------------------------------------
\* daterange/weekly_date_range.rs, daterange/bi_weekly_date_range.rs
\* ------------------------------------------------------------------------

\* calculate_day_of_week_offset looking for the weekday after the date.
calculate_day_of_week_offset_after_date(date, end_day) ==
    IF end_day - num_days_from_monday(date) <= 0
    THEN end_day - num_days_from_monday(date) + 7
    ELSE end_day - num_days_from_monday(date)

\* Weekday::num_days_from_monday of a weekday: weekdays are 0 = Mon .. 6 = Sun.
calculate_day_of_week_offset(date, end_day) ==
    LET offset == end_day - num_days_from_monday(date)
    IN  IF offset < 0 THEN offset + 7 ELSE offset

WeeklyDateRange_with_start_date(start_date) ==
    new(start_date, plus_days(start_date, 6))

WeeklyDateRange_with_end_date(end_date) ==
    new(minus_days(end_date, 6), end_date)

WeeklyDateRange_with_target_date(target, end_day) ==
    LET offset == calculate_day_of_week_offset(target, end_day)
        end    == plus_days(target, offset)
        start  == minus_days(end, 6)
    IN  new(start, end)

BiWeeklyDateRange_with_start_date(start_date) ==
    new(start_date, plus_days(start_date, 13))

BiWeeklyDateRange_with_end_date(end_date) ==
    new(minus_days(end_date, 13), end_date)

BiWeeklyDateRange_with_target_date(target, end_day) ==
    LET offset == calculate_day_of_week_offset(target, end_day)
        end    == plus_days(target, offset)
        start  == minus_days(end, 13)
    IN  new(start, end)

\* ------------------------------------------------------------------------
\* daterange/date_range.rs: navigation
\* ------------------------------------------------------------------------

\* A call through a stored function pointer.
call_fn(f, date_range) ==
    CASE f = "AnnualDateRange::prior" -> AnnualDateRange_prior(date_range)
      [] f = "AnnualDateRange::next"  -> AnnualDateRange_next(date_range)
      [] f = "SemiAnnualDateRange::prior" -> SemiAnnualDateRange_prior(date_range)
      [] f = "SemiAnnualDateRange::next"  -> SemiAnnualDateRange_next(date_range)
      [] f = "QuarterlyDateRange::prior" -> QuarterlyDateRange_prior(date_range)
      [] f = "QuarterlyDateRange::next"  -> QuarterlyDateRange_next(date_range)
      [] f = "MonthlyDateRange::prior" -> MonthlyDateRange_prior(date_range)
      [] f = "MonthlyDateRange::next"  -> MonthlyDateRange_next(date_range)
      [] f = "SemiMonthlyDateRange::prior" -> SemiMonthlyDateRange_prior(date_range)
      [] f = "SemiMonthlyDateRange::next"  -> SemiMonthlyDateRange_next(date_range)

\* The default prior() stepping one day too far: a day is left between the
\* range returned and self.
prior_leaving_a_gap(self) ==
    IF self.prior_fn # None
    THEN call_fn(unwrap(self.prior_fn), self)
    ELSE create_new_date_range(self,
             minus_days(self.start_date, usize_as_i64(self.len) + 1),
             minus_days(self.end_date, usize_as_i64(self.len) + 1))

prior(self) ==
    IF self.prior_fn # None
    THEN call_fn(unwrap(self.prior_fn), self)
    ELSE create_new_date_range(self,
             minus_days(self.start_date, usize_as_i64(self.len)),
             minus_days(self.end_date, usize_as_i64(self.len)))

\* The default next() stepping by the span end - start instead of by len.
next_by_span(self) ==
    IF self.next_fn # None
    THEN call_fn(unwrap(self.next_fn), self)
    ELSE create_new_date_range(self,
             plus_days(self.start_date, usize_as_i64(self.len) - 1),
             plus_days(self.end_date, usize_as_i64(self.len) - 1))

next(self) ==
    IF self.next_fn # None
    THEN call_fn(unwrap(self.next_fn), self)
    ELSE create_new_date_range(self,
             plus_days(self.start_date, usize_as_i64(self.len)),
             plus_days(self.end_date, usize_as_i64(self.len)))

\* `for _ in 1..number { range = range.prior() }`: the body runs for every i
\* with 1 <= i < number.
RECURSIVE prior_loop(_, _, _)
prior_loop(range, i, number) ==
    IF i < number THEN prior_loop(prior(range), i + 1, number) ELSE range

prior_n(self, number) == prior_loop(prior(self), 1, number)

RECURSIVE next_loop(_, _, _)
next_loop(range, i, number) ==
    IF i < number THEN next_loop(next(range), i + 1, number) ELSE range

next_n(self, number) == next_loop(next(self), 1, number)

\* Vec::reverse
RECURSIVE reverse(_)
reverse(s) == IF s = << >> THEN << >> ELSE Append(reverse(Tail(s)), Head(s))

\* `for _ in 0..number { current = current.prior(); ranges.push(..) }`: the
\* body runs for every i with 0 <= i < number.
RECURSIVE ranges_before_loop(_, _, _, _)
ranges_before_push(ranges, current, i, number) ==
    ranges_before_loop(
        Append(ranges,
               create_new_date_range(current, current.start_date, current.end_date)),
        current, i + 1, number)

ranges_before_loop(ranges, current, i, number) ==
    IF i < number
    THEN ranges_before_push(ranges, prior(current), i, number)
    ELSE ranges

\* ranges_before_impl without its closing `ranges.reverse()`.
ranges_before_impl_unreversed(self, number, include_self) ==
    ranges_before_loop(
        IF include_self
        THEN << create_new_date_range(self, self.start_date, self.end_date) >>
        ELSE << >>,
        create_new_date_range(self, self.start_date, self.end_date),
        0, number)

ranges_before_impl(self, number, include_self) ==
    reverse(ranges_before_loop(
        IF include_self
        THEN << create_new_date_range(self, self.start_date, self.end_date) >>
        ELSE << >>,
        create_new_date_range(self, self.start_date, self.end_date),
        0, number))

RECURSIVE ranges_after_loop(_, _, _, _)
ranges_after_push(ranges, current, i, number) ==
    ranges_after_loop(
        Append(ranges,
               create_new_date_range(current, current.start_date, current.end_date)),
        current, i + 1, number)

ranges_after_loop(ranges, current, i, number) ==
    IF i < number
    THEN ranges_after_push(ranges, next(current), i, number)
    ELSE ranges

ranges_after_impl(self, number, include_self) ==
    ranges_after_loop(
        IF include_self
        THEN << create_new_date_range(self, self.start_date, self.end_date) >>
        ELSE << >>,
        create_new_date_range(self, self.start_date, self.end_date),
        0, number)

ranges_before(self, number) == ranges_before_impl(self, number, FALSE)

ranges_before_inclusive(self, number) == ranges_before_impl(self, number, TRUE)

ranges_after(self, number) == ranges_after_impl(self, number, FALSE)

ranges_after_inclusive(self, number) == ranges_after_impl(self, number, TRUE)

\* ranges_window taking self with the ranges after it as well as with the
\* ranges before it.
ranges_window_self_twice(self, before, after) ==
    ranges_before_impl(self, before, TRUE) \o ranges_after_impl(self, after, TRUE)

\* ranges.extend(..before..); ranges.append(&mut after_ranges)
ranges_window(self, before, after) ==
    ranges_before_impl(self, before, TRUE) \o ranges_after_impl(self, after, FALSE)

\* ranges.sort_by_key(|r| r.start_date()): a stable sort, an element going
\* behind the elements whose start is not after its own.
RECURSIVE insert_by_start_date(_, _)
insert_by_start_date(sorted, r) ==
    IF sorted = << >> THEN << r >>
    ELSE IF date_lt(r.start_date, Head(sorted).start_date)
         THEN << r >> \o sorted
         ELSE << Head(sorted) >> \o insert_by_start_date(Tail(sorted), r)

RECURSIVE sort_loop(_, _)
sort_loop(sorted, rest) ==
    IF rest = << >> THEN sorted
    ELSE sort_loop(insert_by_start_date(sorted, Head(rest)), Tail(rest))

\* The sort putting the latest start first.
sort_by_key_descending(ranges) == reverse(sort_loop(<< >>, ranges))

sort_by_key(ranges) == sort_loop(<< >>, ranges)

\* ------------------------------------------------------------------------
\* The client: one range under its hand, and the calls it makes on it
\* ------------------------------------------------------------------------

VARIABLES
    this,     \* the DateRange the client holds, the receiver of its calls
    pos,      \* how many periods `this` lies after (+) or before (-) the
              \* range the constructor returned
    call,     \* the last call made: the constructor, or a method of `this`
    arg,      \* the argument(s) of that call
    ret,      \* what that call returned
    pc,       \* "idle", or "rcd" inside range_containing_date, then "done"
    rcd_range,  \* range_containing_date: its local variable `range`
    rcd_date,   \* range_containing_date: its parameter `date`
    rcd_seen    \* range_containing_date: the ranges its loop has left

vars == << this, pos, call, arg, ret, pc, rcd_range, rcd_date, rcd_seen >>

\* The calls whose result the client only looks at.
Observations ==
    { "prior()", "next()", "prior().next()", "next().prior()",
      "prior_n", "next_n", "range_containing_date",
      "prior().range_containing_date", "next().range_containing_date",
      "ranges_before", "ranges_before_inclusive", "ranges_after",
      "ranges_after_inclusive", "ranges_window", "ranges_containing_span",
      "dates", "iter", "date_at",
      "contains_date", "contains_range", "overlaps", "overlaps_any",
      "eq", "cmp",
      "add_months", "subtract_months", "add_years", "subtract_years",
      "with_year_safe" }

\* The first date the constructors are called with.
FirstInput == day_number(Date(2023, 12, 1))

InputDates == { date_of_day_number(FirstInput + i) : i \in 0..(InputDays - 1) }

\* Weekdays by Weekday::num_days_from_monday.
Weekdays == 0..6

\* The anchor days of the monthly family.
StartDays == 1..31

Built(name, input, r) ==
    /\ this = r
    /\ pos = 0
    /\ call = name
    /\ arg = input
    /\ ret = r
    /\ pc = "idle"
    /\ rcd_range = None
    /\ rcd_date = None
    /\ rcd_seen = {}

InitAnnual ==
    \E d \in InputDates :
        \/ Built("AnnualDateRange::with_start_date", << d >>,
                 AnnualDateRange_with_start_date(d))
        \/ Built("AnnualDateRange::with_end_date", << d >>,
                 AnnualDateRange_with_end_date(d))

InitSemiAnnual ==
    \E d \in InputDates :
        \/ Built("SemiAnnualDateRange::with_start_date", << d >>,
                 SemiAnnualDateRange_with_start_date(d))
        \/ Built("SemiAnnualDateRange::with_end_date", << d >>,
                 SemiAnnualDateRange_with_end_date(d))

InitQuarterly ==
    \E d \in InputDates :
        \/ Built("QuarterlyDateRange::with_start_date", << d >>,
                 QuarterlyDateRange_with_start_date(d))
        \/ Built("QuarterlyDateRange::with_end_date", << d >>,
                 QuarterlyDateRange_with_end_date(d))

InitMonthly ==
    \E d \in InputDates :
        \/ Built("MonthlyDateRange::with_end_date_on_first", << d >>,
                 MonthlyDateRange_with_end_date_on_first(d))
        \/ \E k \in StartDays :
               Built("MonthlyDateRange::with_end_date_and_start_day", << d, k >>,
                     MonthlyDateRange_with_end_date_and_start_day(d, k))

InitSemiMonthly ==
    \E d \in InputDates :
        Built("SemiMonthlyDateRange::with_end_date", << d >>,
              SemiMonthlyDateRange_with_end_date(d))

InitWeekly ==
    \E d \in InputDates :
        \/ Built("WeeklyDateRange::with_start_date", << d >>,
                 WeeklyDateRange_with_start_date(d))
        \/ Built("WeeklyDateRange::with_end_date", << d >>,
                 WeeklyDateRange_with_end_date(d))
        \/ \E w \in Weekdays :
               Built("WeeklyDateRange::with_target_date", << d, w >>,
                     WeeklyDateRange_with_target_date(d, w))

InitBiWeekly ==
    \E d \in InputDates :
        \/ Built("BiWeeklyDateRange::with_start_date", << d >>,
                 BiWeeklyDateRange_with_start_date(d))
        \/ Built("BiWeeklyDateRange::with_end_date", << d >>,
                 BiWeeklyDateRange_with_end_date(d))
        \/ \E w \in Weekdays :
               Built("BiWeeklyDateRange::with_target_date", << d, w >>,
                     BiWeeklyDateRange_with_target_date(d, w))

\* DateRange::new(start, end) with start <= end.
InitNew ==
    \E d \in InputDates : \E n \in 1..MaxLen :
        Built("DateRange::new", << d, plus_days(d, n - 1) >>,
              new(d, plus_days(d, n - 1)))

Init ==
    \/ InitAnnual
    \/ InitSemiAnnual
    \/ InitQuarterly
    \/ InitMonthly
    \/ InitSemiMonthly
    \/ InitWeekly
    \/ InitBiWeekly
    \/ InitNew

\* `r = r.prior()` and `r = r.next()`: the client goes on with the range
\* returned, at most MaxHops periods away from where it started.
StepPrior ==
    /\ pc = "idle"
    /\ call \notin Observations
    /\ pos > -MaxHops
    /\ this' = prior(this)
    /\ pos' = pos - 1
    /\ call' = "prior"
    /\ arg' = << >>
    /\ ret' = this'
    /\ UNCHANGED << pc, rcd_range, rcd_date, rcd_seen >>

StepNext ==
    /\ pc = "idle"
    /\ call \notin Observations
    /\ pos < MaxHops
    /\ this' = next(this)
    /\ pos' = pos + 1
    /\ call' = "next"
    /\ arg' = << >>
    /\ ret' = this'
    /\ UNCHANGED << pc, rcd_range, rcd_date, rcd_seen >>

Next ==
    \/ StepPrior
    \/ StepNext

Spec == Init /\ [][Next]_vars

\* A call on `this` whose result the client looks at, and then stops.
Returns(name, input, r) ==
    /\ pc = "idle"
    /\ call \notin Observations
    /\ call' = name
    /\ arg' = input
    /\ ret' = r
    /\ UNCHANGED << this, pos, pc, rcd_range, rcd_date, rcd_seen >>

CallPrior == Returns("prior()", << >>, prior(this))

CallNext == Returns("next()", << >>, next(this))

\* r.prior().next() and r.next().prior()
CallPriorNext ==
    \E p \in { prior(this) } : Returns("prior().next()", << >>, next(p))

CallNextPrior ==
    \E n \in { next(this) } : Returns("next().prior()", << >>, prior(n))

CallPriorN == \E k \in 0..MaxN : Returns("prior_n", << k >>, prior_n(this, k))

CallNextN == \E k \in 0..MaxN : Returns("next_n", << k >>, next_n(this, k))

\* ------------------------------------------------------------------------
\* DateRange::range_containing_date, one loop iteration at a time
\* ------------------------------------------------------------------------

\* The dates range_containing_date is called with: the dates around the two
\* ends of the receiver, and one date FarPeriods lengths away on each side.
TargetDates(r) ==
    LET days == num_days(r.end_date, r.start_date) + 1
    IN  { minus_days(r.start_date, i) : i \in 0..NearDays }
        \cup { plus_days(r.end_date, i) : i \in 0..NearDays }
        \cup { minus_days(r.start_date, FarPeriods * days),
               plus_days(r.end_date, FarPeriods * days) }

\* let mut range = self.create_new_date_range(self.start_date(), self.end_date());
RcdCall ==
    /\ pc = "idle"
    /\ call \notin Observations
    /\ \E d \in TargetDates(this) :
           /\ rcd_date' = d
           /\ arg' = << d >>
    /\ rcd_range' = create_new_date_range(this, this.start_date, this.end_date)
    /\ rcd_seen' = {}
    /\ call' = "range_containing_date"
    /\ pc' = "rcd"
    /\ UNCHANGED << this, pos, ret >>

\* while !range.contains_date(date) { if date > range.end_date() ... }
\* rcd_seen collects the ranges the loop has left; the model follows the loop
\* until it has left MaxIter different ranges.
RcdLoop ==
    /\ pc = "rcd"
    /\ ~contains_date(rcd_range, rcd_date)
    /\ Cardinality(rcd_seen) < MaxIter
    /\ rcd_range' = IF date_lt(rcd_range.end_date, rcd_date)
                    THEN next(rcd_range)
                    ELSE prior(rcd_range)
    /\ rcd_seen' = rcd_seen \cup { rcd_range }
    /\ UNCHANGED << this, pos, call, arg, ret, pc, rcd_date >>

\* The loop is left: `range` is returned.
RcdReturn ==
    /\ pc = "rcd"
    /\ call # "ranges_containing_span"
    /\ contains_date(rcd_range, rcd_date)
    /\ ret' = rcd_range
    /\ pc' = "done"
    /\ UNCHANGED << this, pos, call, arg, rcd_range, rcd_date, rcd_seen >>

\* The client asks the range it was given for the same date once more.
RcdAgain ==
    /\ pc = "done"
    /\ call = "range_containing_date"
    /\ this' = ret
    /\ rcd_range' = create_new_date_range(ret, ret.start_date, ret.end_date)
    /\ rcd_seen' = {}
    /\ call' = "range_containing_date again"
    /\ pc' = "rcd"
    /\ UNCHANGED << pos, arg, ret, rcd_date >>

NextRcd ==
    \/ RcdCall
    \/ RcdLoop
    \/ RcdReturn
    \/ RcdAgain

SpecSemiAnnualRcd == InitSemiAnnual /\ [][NextRcd]_vars

\* ------------------------------------------------------------------------
\* C1: the bound a constructor is given is the bound of its result
\* ------------------------------------------------------------------------

WithStartDate ==
    { "AnnualDateRange::with_start_date", "SemiAnnualDateRange::with_start_date",
      "QuarterlyDateRange::with_start_date", "WeeklyDateRange::with_start_date",
      "BiWeeklyDateRange::with_start_date" }

WithEndDate ==
    { "AnnualDateRange::with_end_date", "SemiAnnualDateRange::with_end_date",
      "QuarterlyDateRange::with_end_date", "SemiMonthlyDateRange::with_end_date",
      "WeeklyDateRange::with_end_date", "BiWeeklyDateRange::with_end_date",
      "MonthlyDateRange::with_end_date_on_first",
      "MonthlyDateRange::with_end_date_and_start_day" }

Quarterly ==
    { "QuarterlyDateRange::with_start_date", "QuarterlyDateRange::with_end_date" }

WellFormed(r) ==
    /\ date_le(r.start_date, r.end_date)
    /\ r.len = usize(num_days(r.end_date, r.start_date) + 1)
    /\ r.len.plus > 0

\* C2 as claimed: the range of every constructor, for any input date, and
\* every range reached from it by prior()/next() has start <= end and
\* len = days(start, end) + 1 > 0.
C2_WellFormed == WellFormed(this)

\* C2 amended: the same, the semi-monthly constructor being called with an
\* end date on or after the 15th of its month (its documented end dates, the
\* 15th and the last day of a month, are among them); ranges reached by
\* prior()/next() are well formed whatever the constructor was given.
C2_WellFormedButEarlySemiMonthly ==
    \/ /\ call = "SemiMonthlyDateRange::with_end_date"
       /\ arg[1].day < FIFTEENTH_OF_MONTH
    \/ WellFormed(this)

\* Two periods after a monthly range anchored on the 31st that ended on
\* 2024-01-30: the period after February.
C2_Witness ==
    /\ call = "next"
    /\ pos = 2
    /\ this.start_day = Some(31)
    /\ this.start_date = Date(2024, 3, 1)
    /\ WellFormed(this)

\* ------------------------------------------------------------------------
\* range_containing_date
\* ------------------------------------------------------------------------

\* The loop of range_containing_date comes to its end: it never comes back
\* to a range it has left (from there it would go round for ever), and it is
\* not still searching after MaxIter ranges.
LoopEnds ==
    pc = "rcd" =>
        /\ rcd_range \notin rcd_seen
        /\ contains_date(rcd_range, rcd_date) \/ Cardinality(rcd_seen) < MaxIter

\* What it returns contains the date asked for.
FoundContains == pc = "done" => contains_date(ret, rcd_date)

\* C3: for a semi-annual range r of either constructor and any date d,
\* r.range_containing_date(d) terminates and returns a range containing d.
C3_SemiAnnualFinds == LoopEnds /\ FoundContains

\* Default navigation: DateRange::new and the weekly and bi-weekly families.
InitDefault ==
    \/ InitNew
    \/ InitWeekly
    \/ InitBiWeekly

SpecDefaultRcd == InitDefault /\ [][NextRcd]_vars

\* C4: for a range r with default navigation and any date d,
\* r.range_containing_date(d) terminates with a range that contains d, has
\* r's len, and starts a whole multiple of len days from r's start.
C4_DefaultFinds ==
    /\ LoopEnds
    /\ FoundContains
    /\ pc = "done" =>
           /\ ret.len = this.len
           /\ num_days(ret.start_date, this.start_date)
                  % usize_as_i64(this.len) = 0

\* A bi-weekly range was asked for a date two periods before it, and the
\* loop went back twice.
C4_Witness ==
    /\ pc = "done"
    /\ call = "range_containing_date"
    /\ this.len = usize(14)
    /\ num_days(this.start_date, ret.start_date) = 28
    /\ contains_date(ret, rcd_date)
    /\ Cardinality(rcd_seen) = 2

\* The semi-monthly end dates: the 15th and the last day of a month.
InitSemiMonthlyValid ==
    \E d \in InputDates :
        /\ \/ d.day = FIFTEENTH_OF_MONTH
           \/ d = last_day_of_month(d)
        /\ Built("SemiMonthlyDateRange::with_end_date", << d >>,
                 SemiMonthlyDateRange_with_end_date(d))

InitCalendar ==
    \/ InitAnnual
    \/ InitQuarterly
    \/ InitMonthly
    \/ InitSemiMonthlyValid

SpecCalendarRcd == InitCalendar /\ [][NextRcd]_vars

\* C5: for an annual, quarterly, monthly (on the first, or with any start
\* day 1..31) or semi-monthly (end on the 15th or the last day of a month)
\* range r and any date d, r.range_containing_date(d) terminates with a
\* range g that contains d, and g.range_containing_date(d) has g's bounds.
C5_CalendarFinds ==
    /\ LoopEnds
    /\ FoundContains
    /\ call = "range_containing_date again" /\ pc = "done" => eq(ret, this)

\* The annual range [2023-03-01, 2024-02-29], found for the leap day
\* 2024-02-29, was asked for that day again and answered with its own bounds.
C5_Witness ==
    /\ pc = "done"
    /\ call = "range_containing_date again"
    /\ arg = << Date(2024, 2, 29) >>
    /\ this.next_fn = Some("AnnualDateRange::next")
    /\ this.start_date = Date(2023, 3, 1)
    /\ this.end_date = Date(2024, 2, 29)
    /\ eq(ret, this)

\* ------------------------------------------------------------------------
\* prior() and next() as inverses of one another
\* ------------------------------------------------------------------------

RoundTrips == { "prior().next()", "next().prior()" }

NextTrip ==
    \/ CallPriorNext
    \/ CallNextPrior

SpecSemiAnnualTrip == InitSemiAnnual /\ [][NextTrip]_vars

\* C6: for a semi-annual range r of either constructor, r.prior().next()
\* and r.next().prior() have exactly r's bounds.
C6_SemiAnnualRoundTrip == call \in RoundTrips => eq(ret, this)

SpecAnnualTrip == InitAnnual /\ [][NextTrip]_vars

IsFeb29(date) == date.month = 2 /\ date.day = 29

\* C7 as claimed: for every annual range r whose start is not Feb 29, built
\* by with_start_date or by with_end_date, r.prior().next() and
\* r.next().prior() have exactly r's bounds.
C7_AnnualRoundTrip ==
    call \in RoundTrips /\ ~IsFeb29(this.start_date) => eq(ret, this)

\* Feb 28 of a leap year: the end of no range the end rule gives, and so of
\* no range of with_start_date; with_end_date returns it when asked to.
EndsBeforeLeapDay(r) ==
    /\ r.end_date.month = 2
    /\ r.end_date.day = 28
    /\ is_leap_year(r.end_date.year)

\* C7 amended: for every annual range r whose start is not Feb 29 and whose
\* end is not Feb 28 of a leap year, built by with_start_date or by
\* with_end_date, r.prior().next() and r.next().prior() have exactly r's
\* bounds.
C7_AnnualRoundTripButBeforeLeapDay ==
    call \in RoundTrips /\ ~IsFeb29(this.start_date) /\ ~EndsBeforeLeapDay(this)
        => eq(ret, this)

\* The annual range [2024-03-01, 2025-02-28], the year after a leap day,
\* went back a year and forth again.
C7_Witness ==
    /\ call = "prior().next()"
    /\ this.next_fn = Some("AnnualDateRange::next")
    /\ this.start_date = Date(2024, 3, 1)
    /\ this.end_date = Date(2025, 2, 28)
    /\ eq(ret, this)

\* Monthly ranges that end on the day before their anchor day: on the last
\* day of a month for the anchor 1, on day k - 1 for an anchor k in 2..31.
InitMonthlyAnchored ==
    \E d \in InputDates :
        \/ /\ d = last_day_of_month(d)
           /\ Built("MonthlyDateRange::with_end_date_on_first", << d >>,
                    MonthlyDateRange_with_end_date_on_first(d))
        \/ \E k \in StartDays \ {1} :
               /\ d.day = k - 1
               /\ Built("MonthlyDateRange::with_end_date_and_start_day",
                        << d, k >>,
                        MonthlyDateRange_with_end_date_and_start_day(d, k))

NextRoundTrip ==
    \/ StepPrior
    \/ StepNext
    \/ CallPriorNext
    \/ CallNextPrior

SpecMonthlyRoundTrip == InitMonthlyAnchored /\ [][NextRoundTrip]_vars

\* C8: for a monthly range r of with_end_date_on_first(e) with e the last
\* day of a month, or of with_end_date_and_start_day(e, k) with k in 2..31
\* and e on day k - 1, and for every range reached from r by prior()/next(),
\* x.prior().next() and x.next().prior() have exactly x's bounds.
C8_MonthlyRoundTrip == call \in RoundTrips => eq(ret, this)

NextDefaultNav ==
    \/ StepPrior
    \/ StepNext
    \/ CallPrior
    \/ CallNext
    \/ CallPriorNext
    \/ CallNextPrior

SpecDefaultNav == InitDefault /\ [][NextDefaultNav]_vars

\* C9: for a range with default navigation, prior() moves both bounds back
\* by len days and next() forward by len days, each keeping len;
\* r.prior().next() and r.next().prior() equal r; r.prior() ends the day
\* before r starts and r.next() starts the day after r ends.
C9_DefaultNavigation ==
    /\ call = "prior()" =>
           /\ ret.start_date = minus_days(this.start_date, usize_as_i64(this.len))
           /\ ret.end_date = minus_days(this.end_date, usize_as_i64(this.len))
           /\ ret.len = this.len
           /\ ret.end_date = minus_days(this.start_date, 1)
    /\ call = "next()" =>
           /\ ret.start_date = plus_days(this.start_date, usize_as_i64(this.len))
           /\ ret.end_date = plus_days(this.end_date, usize_as_i64(this.len))
           /\ ret.len = this.len
           /\ ret.start_date = plus_days(this.end_date, 1)
    /\ call \in RoundTrips => eq(ret, this)

\* A range of DateRange::new, five days long and two periods before the one
\* built, returned the five days before it.
C9_Witness ==
    /\ call = "prior()"
    /\ pos = -2
    /\ this.prior_fn = None
    /\ this.len = usize(5)
    /\ ret.end_date = minus_days(this.start_date, 1)
    /\ num_days(ret.end_date, ret.start_date) = 4

\* ------------------------------------------------------------------------
\* prior_n and next_n
\* ------------------------------------------------------------------------

NextN ==
    \/ CallPriorN
    \/ CallNextN

SpecN == Init /\ [][NextN]_vars

\* prior() and next() applied to r k times over: r itself for k = 0.
RECURSIVE prior_times(_, _)
prior_times(r, k) == IF k = 0 THEN r ELSE prior_times(prior(r), k - 1)

RECURSIVE next_times(_, _)
next_times(r, k) == IF k = 0 THEN r ELSE next_times(next(r), k - 1)

\* C10: prior_n(k) and next_n(k) return exactly what k applications of
\* prior() and of next() return; prior_n(0) returns a range equal to self.
C10_NTimes ==
    /\ call = "prior_n" =>
           /\ eq(ret, prior_times(this, arg[1]))
           /\ ret.len = prior_times(this, arg[1]).len
    /\ call = "next_n" =>
           /\ eq(ret, next_times(this, arg[1]))
           /\ ret.len = next_times(this, arg[1]).len
    /\ call = "prior_n" /\ arg[1] = 0 => eq(ret, this)

\* ------------------------------------------------------------------------
\* ranges_before, ranges_after and ranges_window
\* ------------------------------------------------------------------------

CallRangesWindow ==
    \E before \in 0..MaxN : \E after \in 0..MaxN :
        Returns("ranges_window", << before, after >>,
                ranges_window(this, before, after))

NextWindow == CallRangesWindow

SpecDefaultWindow == InitDefault /\ [][NextWindow]_vars

\* The starts of a list of ranges are strictly ascending.
StartsAscend(ranges) ==
    \A i \in 1..(Len(ranges) - 1) :
        date_lt(ranges[i].start_date, ranges[i + 1].start_date)

\* C11: for a range with default navigation, ranges_window(before, after)
\* returns before + after + 1 ranges, ranges_before_inclusive(before)
\* followed by ranges_after(after): prior applied before - i times at the
\* 0-based place i < before, self at place before, next applied j times at
\* place before + j; self's bounds are there exactly once and the starts are
\* strictly ascending.
C11_Window ==
    call = "ranges_window" =>
        /\ Len(ret) = arg[1] + arg[2] + 1
        /\ ret = ranges_before_inclusive(this, arg[1]) \o ranges_after(this, arg[2])
        /\ \A i \in 1..arg[1] : ret[i] = prior_times(this, arg[1] - i + 1)
        /\ eq(ret[arg[1] + 1], this)
        /\ \A j \in 1..arg[2] : ret[arg[1] + 1 + j] = next_times(this, j)
        /\ Cardinality({ i \in 1..Len(ret) : eq(ret[i], this) }) = 1
        /\ StartsAscend(ret)

\* A week asked for the two weeks before it and the three after it.
C11_Witness ==
    /\ call = "ranges_window"
    /\ arg = << 2, 3 >>
    /\ this.prior_fn = None
    /\ this.len = usize(7)
    /\ Len(ret) = 6
    /\ ret[1].start_date = minus_days(this.start_date, 14)
    /\ ret[3] = this
    /\ ret[6].end_date = plus_days(this.end_date, 21)

\* The families whose periods all have the same number of units.
InitUniform ==
    \/ InitSemiAnnual
    \/ InitQuarterly
    \/ InitMonthly
    \/ InitSemiMonthly
    \/ InitWeekly
    \/ InitBiWeekly

SpecUniformWindow == InitUniform /\ [][NextWindow]_vars

\* No two elements of a list of ranges have the same bounds.
NoDuplicate(ranges) ==
    \A i \in 1..Len(ranges) : \A j \in (i + 1)..Len(ranges) :
        ~eq(ranges[i], ranges[j])

\* Each element starts on the day after the element before it ends.
Contiguous(ranges) ==
    \A i \in 1..(Len(ranges) - 1) :
        ranges[i + 1].start_date = plus_days(ranges[i].end_date, 1)

\* C12: for a semi-annual, quarterly, monthly, semi-monthly, weekly or
\* bi-weekly range built by a constructor, ranges_window(b, a) has b + a + 1
\* elements, strictly ascending starts, no duplicate, and no gap or overlap:
\* each element starts exactly one day after the element before it ends.
C12_WindowTiles ==
    call = "ranges_window" =>
        /\ Len(ret) = arg[1] + arg[2] + 1
        /\ StartsAscend(ret)
        /\ NoDuplicate(ret)
        /\ Contiguous(ret)

CallRangesBefore ==
    \E k \in 0..MaxN :
        Returns("ranges_before", << k >>, ranges_before(this, k))

CallRangesBeforeInclusive ==
    \E k \in 0..MaxN :
        Returns("ranges_before_inclusive", << k >>,
                ranges_before_inclusive(this, k))

CallRangesAfter ==
    \E k \in 0..MaxN :
        Returns("ranges_after", << k >>, ranges_after(this, k))

CallRangesAfterInclusive ==
    \E k \in 0..MaxN :
        Returns("ranges_after_inclusive", << k >>,
                ranges_after_inclusive(this, k))

NextRanges ==
    \/ CallRangesBefore
    \/ CallRangesBeforeInclusive
    \/ CallRangesAfter
    \/ CallRangesAfterInclusive

SpecRanges == Init /\ [][NextRanges]_vars

\* C13: ranges_before(k) returns k ranges, none equal to self, ascending:
\* prior applied k times first, prior applied once last;
\* ranges_before_inclusive(k) returns those k ranges and then self;
\* ranges_after(k) returns next applied once, ..., next applied k times;
\* ranges_after_inclusive(k) returns self and then those k ranges.
C13_BeforeAndAfter ==
    /\ call = "ranges_before" =>
           /\ Len(ret) = arg[1]
           /\ \A i \in 1..arg[1] : ret[i] = prior_times(this, arg[1] - i + 1)
           /\ \A i \in 1..arg[1] : ~eq(ret[i], this)
           /\ StartsAscend(ret)
    /\ call = "ranges_before_inclusive" =>
           /\ Len(ret) = arg[1] + 1
           /\ SubSeq(ret, 1, arg[1]) = ranges_before(this, arg[1])
           /\ eq(ret[arg[1] + 1], this)
    /\ call = "ranges_after" =>
           /\ Len(ret) = arg[1]
           /\ \A j \in 1..arg[1] : ret[j] = next_times(this, j)
    /\ call = "ranges_after_inclusive" =>
           /\ Len(ret) = arg[1] + 1
           /\ eq(ret[1], this)
           /\ SubSeq(ret, 2, arg[1] + 1) = ranges_after(this, arg[1])

\* The annual range that starts on the leap day 2024-02-29 asked for the two
\* years before it: they start on 2022-02-28 and on 2023-02-28.
C13_Witness ==
    /\ call = "ranges_before"
    /\ arg = << 2 >>
    /\ this.prior_fn = Some("AnnualDateRange::prior")
    /\ this.start_date = Date(2024, 2, 29)
    /\ Len(ret) = 2
    /\ ret[1].start_date = Date(2022, 2, 28)
    /\ ret[2].start_date = Date(2023, 2, 28)
    /\ ret[2] = prior(this)

\* ------------------------------------------------------------------------
\* DateRange::ranges_containing_span, one loop iteration at a time
\* ------------------------------------------------------------------------

\* The last dates of the spans asked for: the first date itself, the day
\* after it, and the dates whole lengths of the receiver after it.
SpanEnds(r, from_date) ==
    { plus_days(from_date, 1) }
        \cup { plus_days(from_date, k * (num_days(r.end_date, r.start_date) + 1)) :
                   k \in 0..MaxSpan }

\* let mut ranges = Vec::new();
\* let mut range = self.range_containing_date(from_date);  (the call is entered)
SpanCall ==
    /\ pc = "idle"
    /\ call \notin Observations
    /\ \E from_date \in TargetDates(this) : \E to_date \in SpanEnds(this, from_date) :
           /\ rcd_date' = from_date
           /\ arg' = << from_date, to_date >>
    /\ ret' = << >>
    /\ rcd_range' = create_new_date_range(this, this.start_date, this.end_date)
    /\ rcd_seen' = {}
    /\ call' = "ranges_containing_span"
    /\ pc' = "rcd"
    /\ UNCHANGED << this, pos >>

\* range_containing_date returns into `range`; ranges.push(range.clone())
SpanFirst ==
    /\ pc = "rcd"
    /\ call = "ranges_containing_span"
    /\ contains_date(rcd_range, rcd_date)
    /\ ret' = Append(ret, rcd_range)
    /\ pc' = "span"
    /\ UNCHANGED << this, pos, call, arg, rcd_range, rcd_date, rcd_seen >>

\* while range.end_date() < to_date { range = range.next(); ranges.push(..) }
\* The model follows the loop until the list holds MaxIter ranges.
SpanLoop ==
    /\ pc = "span"
    /\ date_lt(rcd_range.end_date, arg[2])
    /\ Len(ret) < MaxIter
    /\ rcd_range' = next(rcd_range)
    /\ ret' = Append(ret, rcd_range')
    /\ UNCHANGED << this, pos, call, arg, pc, rcd_date, rcd_seen >>

\* ranges.sort_by_key(|r| r.start_date()); ranges
SpanReturn ==
    /\ pc = "span"
    /\ ~date_lt(rcd_range.end_date, arg[2])
    /\ ret' = sort_by_key(ret)
    /\ pc' = "done"
    /\ UNCHANGED << this, pos, call, arg, rcd_range, rcd_date, rcd_seen >>

NextSpan ==
    \/ SpanCall
    \/ RcdLoop
    \/ SpanFirst
    \/ SpanLoop
    \/ SpanReturn

SpecSpan == InitNew /\ [][NextSpan]_vars

\* The second loop comes to its end: it is not still short of to_date when
\* the list holds MaxIter ranges.
SpanLoopEnds ==
    pc = "span" /\ date_lt(rcd_range.end_date, arg[2]) => Len(ret) < MaxIter

\* Every date from from_date to to_date is in a range of the list.
Covers(ranges, from_date, to_date) ==
    \A j \in 0..num_days(to_date, from_date) :
        \E i \in 1..Len(ranges) : contains_date(ranges[i], plus_days(from_date, j))

\* C14: for a range with default navigation and from <= to,
\* ranges_containing_span(from, to) terminates with a list that is not
\* empty and ascends by start; its first element contains from, its last
\* contains to, each element is next() of the one before it, every date of
\* [from, to] is in an element, and no element lies outside the days from
\* the start of the first to the end of the last.
C14_Span ==
    /\ LoopEnds
    /\ SpanLoopEnds
    /\ call = "ranges_containing_span" /\ pc = "done" =>
           /\ Len(ret) >= 1
           /\ StartsAscend(ret)
           /\ contains_date(ret[1], arg[1])
           /\ contains_date(ret[Len(ret)], arg[2])
           /\ \A i \in 1..(Len(ret) - 1) : ret[i + 1] = next(ret[i])
           /\ Covers(ret, arg[1], arg[2])
           /\ \A i \in 1..Len(ret) :
                  /\ date_le(ret[1].start_date, ret[i].start_date)
                  /\ date_le(ret[i].end_date, ret[Len(ret)].end_date)

\* A range of three days asked for the span from the day two lengths before
\* it to the day two lengths after that: three ranges, the last one self.
C14_Witness ==
    /\ call = "ranges_containing_span"
    /\ pc = "done"
    /\ this.len = usize(3)
    /\ arg[1] = minus_days(this.start_date, 6)
    /\ arg[2] = this.start_date
    /\ Len(ret) = 3
    /\ ret[3] = this
    /\ Cardinality(rcd_seen) = 2

\* ------------------------------------------------------------------------
\* dates, iter and date_at
\* ------------------------------------------------------------------------

\* The indexes date_at is called with: the first ones, and those around the
\* number of days of the receiver.
DateIndexes(r) ==
    { i \in (0..MaxLen) \cup { num_days(r.end_date, r.start_date) + i :
                                   i \in 0..(NearDays + 1) } : i >= 0 }

CallDates == Returns("dates", << >>, dates(this))

CallIter == Returns("iter", << >>, collect(iter(this), << >>))

CallDateAt ==
    \E index \in DateIndexes(this) :
        Returns("date_at", << index >>, date_at(this, index))

NextDates ==
    \/ CallDates
    \/ CallIter
    \/ CallDateAt

InitDates ==
    \/ InitNew
    \/ InitSemiMonthlyValid

SpecDates == InitDates /\ [][NextDates]_vars

\* C15: for a range with start <= end, dates() returns len() dates, start
\* first, end last, each the day after the one before it; iter() yields the
\* same sequence; date_at(i) is start + i days for i < len() and None for
\* i >= len().
C15_Dates ==
    /\ call = "dates" =>
           /\ usize(Len(ret)) = this.len
           /\ ret[1] = this.start_date
           /\ ret[Len(ret)] = this.end_date
           /\ \A i \in 1..Len(ret) :
                  from_ymd_opt(ret[i].year, ret[i].month, ret[i].day) = Some(ret[i])
           /\ \A i \in 1..(Len(ret) - 1) :
                  day_number(ret[i + 1]) = day_number(ret[i]) + 1
    /\ call = "iter" => ret = dates(this)
    /\ call = "date_at" =>
           IF arg[1] < usize_as_i64(this.len)
           THEN ret = Some(plus_days(this.start_date, arg[1]))
           ELSE ret = None

\* The semi-monthly range that ends on the leap day 2024-02-29 was asked for
\* its dates: the fourteen days from 2024-02-16 on.
C15_Witness ==
    /\ call = "dates"
    /\ this.next_fn = Some("SemiMonthlyDateRange::next")
    /\ this.end_date = Date(2024, 2, 29)
    /\ Len(ret) = 14
    /\ ret[1] = Date(2024, 2, 16)
    /\ ret[14] = Date(2024, 2, 29)

\* ------------------------------------------------------------------------
\* contains_date, contains_range, overlaps and overlaps_any
\* ------------------------------------------------------------------------

\* The dates up to NearDays + 1 days before the start and after the end of
\* a range, and up to NearDays days inside it.
NearDates(r) ==
    { plus_days(r.start_date, i) : i \in (-(NearDays + 1))..NearDays }
        \cup { plus_days(r.end_date, i) : i \in (-NearDays)..(NearDays + 1) }

\* The ranges with start <= end between two of those dates.
OtherRanges(r) ==
    { new(se[1], se[2]) :
          se \in { p \in NearDates(r) \X NearDates(r) : date_le(p[1], p[2]) } }

\* Two-day ranges next to a range: those that share its first or its last
\* day, and those further out.
ListRanges(r) ==
    { new(minus_days(r.start_date, i + 1), minus_days(r.start_date, i)) :
          i \in 0..NearDays }
        \cup { new(plus_days(r.end_date, i), plus_days(r.end_date, i + 1)) :
                   i \in 0..NearDays }

\* The lists overlaps_any is called with: of no, one and two ranges.
RangeLists(r) ==
    { << >> }
        \cup { << b >> : b \in ListRanges(r) }
        \cup { << b, c >> : b \in ListRanges(r), c \in ListRanges(r) }

\* The client has made no call on its range yet.
Uncalled == pc = "idle" /\ call \notin Observations

CallContainsDate ==
    /\ Uncalled
    /\ \E d \in NearDates(this) :
           Returns("contains_date", << d >>, contains_date(this, d))

CallContainsRange ==
    /\ Uncalled
    /\ \E b \in OtherRanges(this) :
           Returns("contains_range", << b >>, contains_range(this, b))

CallOverlaps ==
    /\ Uncalled
    /\ \E b \in OtherRanges(this) :
           Returns("overlaps", << b >>, overlaps(this, b))

CallOverlapsAny ==
    /\ Uncalled
    /\ \E list \in RangeLists(this) :
           Returns("overlaps_any", << list >>, overlaps_any(this, list))

NextPredicates ==
    \/ CallContainsDate
    \/ CallContainsRange
    \/ CallOverlaps
    \/ CallOverlapsAny

SpecPredicates == InitNew /\ [][NextPredicates]_vars

\* Every date of the ranges the predicates are asked about.
DatesAround(r) ==
    { plus_days(r.start_date, i) :
          i \in (-(NearDays + 2))..(num_days(r.end_date, r.start_date) + NearDays + 2) }

InRange(r, d) ==
    /\ day_number(r.start_date) <= day_number(d)
    /\ day_number(d) <= day_number(r.end_date)

\* C16: for ranges a, b with start <= end: a.overlaps(b) is true exactly
\* when some date is in both, and is symmetric; a.contains_range(b) is true
\* exactly when every date of b is in a, and implies overlaps;
\* a.contains_date(d) is true exactly for start <= d <= end;
\* a.overlaps_any(list) is true exactly when a overlaps an element of the
\* list, and false for the empty list.
C16_Predicates ==
    /\ call = "overlaps" =>
           /\ ret = (\E d \in DatesAround(this) : InRange(this, d) /\ InRange(arg[1], d))
           /\ ret = overlaps(arg[1], this)
    /\ call = "contains_range" =>
           /\ ret = (\A d \in DatesAround(this) : InRange(arg[1], d) => InRange(this, d))
           /\ ret => overlaps(this, arg[1])
    /\ call = "contains_date" => ret = InRange(this, arg[1])
    /\ call = "overlaps_any" =>
           /\ ret = (\E i \in 1..Len(arg[1]) :
                        \E d \in DatesAround(this) :
                            InRange(this, d) /\ InRange(arg[1][i], d))
           /\ arg[1] = << >> => ret = FALSE

\* A range of five days and the two days that begin on its last day: they
\* share that one day, and overlap.
C16_Witness ==
    /\ call = "overlaps"
    /\ this.len = usize(5)
    /\ arg[1].start_date = this.end_date
    /\ arg[1].end_date = plus_days(this.end_date, 1)
    /\ ret = TRUE

\* ------------------------------------------------------------------------
\* Equality and ordering
\* ------------------------------------------------------------------------

\* The ranges a range is compared with: the ranges around it, and ranges
\* with its own bounds that navigate as an annual range and as a monthly
\* range anchored on the 16th.
ComparedRanges(r) ==
    OtherRanges(r)
        \cup { new_with_prior_next(r.start_date, r.end_date,
                                   "AnnualDateRange::prior", "AnnualDateRange::next"),
               new_with_prior_next_start_day(r.start_date, r.end_date,
                                             "MonthlyDateRange::prior",
                                             "MonthlyDateRange::next", Some(16)) }

CallEq ==
    /\ Uncalled
    /\ \E b \in ComparedRanges(this) : Returns("eq", << b >>, eq(this, b))

CallCmp ==
    /\ Uncalled
    /\ \E b \in ComparedRanges(this) : Returns("cmp", << b >>, cmp(this, b))

NextCompare ==
    \/ CallEq
    \/ CallCmp

SpecCompare == InitNew /\ [][NextCompare]_vars

\* C17: two ranges are equal exactly when they have the same start and the
\* same end, whatever their navigation and anchor day; and a.cmp(b) is
\* Equal exactly when a == b.
C17_EqualityAndOrder ==
    /\ call = "eq" =>
           ret = (this.start_date = arg[1].start_date /\ this.end_date = arg[1].end_date)
    /\ call = "cmp" => ((ret = "Equal") = eq(this, arg[1]))

\* ------------------------------------------------------------------------
\* dateutils: add_months, add_years, with_year_safe
\* ------------------------------------------------------------------------

\* The client holds one date: the range of DateRange::new(d, d).
InitOneDay ==
    \E d \in InputDates : Built("DateRange::new", << d, d >>, new(d, d))

CallAddMonths ==
    \E n \in (-MaxMonths)..MaxMonths :
        Returns("add_months", << this.start_date, n >>,
                add_months(this.start_date, n))

CallSubtractMonths ==
    \E n \in (-MaxMonths)..MaxMonths :
        Returns("subtract_months", << this.start_date, n >>,
                subtract_months(this.start_date, n))

NextMonths ==
    \/ CallAddMonths
    \/ CallSubtractMonths

SpecMonths == InitOneDay /\ [][NextMonths]_vars

\* The months of the calendar counted from year 0: the count of a date's
\* month, and the year and the month of a count.
MonthCount(d) == d.year * 12 + (d.month - 1)

YearOfCount(c) == c \div 12

MonthOfCount(c) == (c % 12) + 1

\* r is a date of the month n months from d's month, on d's day or, where
\* that month is shorter, on its last day.
IsMonthsFrom(r, d, n) ==
    /\ r.year = YearOfCount(MonthCount(d) + n)
    /\ r.month = MonthOfCount(MonthCount(d) + n)
    /\ r.day = IF d.day < days_in_month(r.year, r.month)
               THEN d.day
               ELSE days_in_month(r.year, r.month)
    /\ r.day <= d.day
    /\ from_ymd_opt(r.year, r.month, r.day) = Some(r)

\* C18: add_months(d, n), n of either sign, is a valid date in the month n
\* months from d's month, the year carried, on the day
\* min(d.day, days of that month): the day is never increased and the
\* result is never in the following month; subtract_months(d, n) is
\* add_months(d, -n).
C18_AddMonths ==
    /\ call = "add_months" => IsMonthsFrom(ret, arg[1], arg[2])
    /\ call = "subtract_months" =>
           /\ IsMonthsFrom(ret, arg[1], -arg[2])
           /\ ret = add_months(arg[1], -arg[2])

\* 2024-01-31 plus thirteen months: the last day of February 2025.
C18_Witness ==
    /\ call = "add_months"
    /\ arg = << Date(2024, 1, 31), 13 >>
    /\ ret = Date(2025, 2, 28)

CallAddYears ==
    \E n \in (-MaxYears)..MaxYears :
        Returns("add_years", << this.start_date, n >>,
                add_years(this.start_date, n))

CallSubtractYears ==
    \E n \in (-MaxYears)..MaxYears :
        Returns("subtract_years", << this.start_date, n >>,
                subtract_years(this.start_date, n))

CallWithYearSafe ==
    \E n \in (-MaxYears)..MaxYears :
        Returns("with_year_safe", << this.start_date, this.start_date.year + n >>,
                with_year_safe(this.start_date, this.start_date.year + n))

NextYears ==
    \/ CallAddYears
    \/ CallSubtractYears
    \/ CallWithYearSafe

SpecYears == InitOneDay /\ [][NextYears]_vars

\* r is d moved to the year y: the same month and the same day, Feb 29
\* becoming Feb 28 where y is not a leap year.
IsInYear(r, d, y) ==
    /\ r.year = y
    /\ r.month = d.month
    /\ r.day = IF IsFeb29(d) /\ ~is_leap_year(y) THEN 28 ELSE d.day

\* C19: add_years(d, n) is add_months(d, 12 * n) and subtract_years(d, n) is
\* add_months(d, -12 * n); the result has the year d.year + n (d.year - n),
\* d's month and d's day, Feb 29 becoming Feb 28 in a year that is not a
\* leap year; with_year_safe(d, y) is add_years(d, y - d.year).
C19_AddYears ==
    /\ call = "add_years" =>
           /\ ret = add_months(arg[1], 12 * arg[2])
           /\ IsInYear(ret, arg[1], arg[1].year + arg[2])
    /\ call = "subtract_years" =>
           /\ ret = add_months(arg[1], -12 * arg[2])
           /\ IsInYear(ret, arg[1], arg[1].year - arg[2])
    /\ call = "with_year_safe" =>
           /\ ret = add_years(arg[1], arg[2] - arg[1].year)
           /\ IsInYear(ret, arg[1], arg[2])

\* The leap day 2024-02-29 taken to 2025: 2025-02-28.
C19_Witness ==
    /\ call = "with_year_safe"
    /\ arg = << Date(2024, 2, 29), 2025 >>
    /\ ret = Date(2025, 2, 28)

\* ------------------------------------------------------------------------
\* The annual range of a start date
\* ------------------------------------------------------------------------

\* A Feb 29 lies in the range.
HoldsLeapDay(r) ==
    \E y \in (r.start_date.year)..(r.end_date.year) :
        /\ is_leap_year(y)
        /\ InRange(r, Date(y, 2, 29))

\* C20: AnnualDateRange::with_start_date(s) starts on s and ends on the day
\* before the same month and day of the following year, and on Feb 28 of the
\* following year (not on Feb 27) when s is a Feb 29; its len() is 366 when
\* a Feb 29 lies in the range, and 365 otherwise.
C20_AnnualOfStart ==
    call = "AnnualDateRange::with_start_date" =>
        /\ ret.start_date = arg[1]
        /\ ret.end_date = IF IsFeb29(arg[1])
                          THEN Date(arg[1].year + 1, 2, 28)
                          ELSE minus_days(Date(arg[1].year + 1, arg[1].month,
                                               arg[1].day), 1)
        /\ ret.len = IF HoldsLeapDay(ret) THEN usize(366) ELSE usize(365)

\* The annual range of the leap day 2024-02-29: the 366 days to 2025-02-28.
C20_Witness ==
    /\ call = "AnnualDateRange::with_start_date"
    /\ arg = << Date(2024, 2, 29) >>
    /\ ret.start_date = Date(2024, 2, 29)
    /\ ret.end_date = Date(2025, 2, 28)
    /\ ret.len = usize(366)

\* ------------------------------------------------------------------------
\* The periods of a family, one after the other
\* ------------------------------------------------------------------------

\* The client walks along the periods and looks at the one before and the
\* one after the range it stands on.
NextNav ==
    \/ StepPrior
    \/ StepNext
    \/ CallPrior
    \/ CallNext

SpecAnnualNav == InitAnnual /\ [][NextNav]_vars

\* The range returned by next() starts the day after self ends; the range
\* returned by prior() ends the day before self starts.
Adjacent ==
    /\ call = "next()" => ret.start_date = plus_days(this.end_date, 1)
    /\ call = "prior()" => ret.end_date = minus_days(this.start_date, 1)

\* C21: for every annual range r of either constructor and every range
\* reached from it by prior()/next(), Feb 29 starts and ranges of
\* with_end_date included, r.next() starts one day after r ends and
\* r.prior() ends one day before r starts, the step moving the start by one
\* year and taking the end by the end rule of with_start_date.
C21_AnnualTiles ==
    /\ Adjacent
    /\ call = "next()" =>
           /\ ret.start_date = add_years(this.start_date, 1)
           /\ ret.end_date = AnnualDateRange_end_for_start(ret.start_date)
    /\ call = "prior()" =>
           /\ ret.start_date = subtract_years(this.start_date, 1)
           /\ ret.end_date = AnnualDateRange_end_for_start(ret.start_date)

SpecMonthlyNav == InitMonthlyAnchored /\ [][NextNav]_vars

\* Day k of the month of year y, or the last day of a shorter month.
DayOrLast(y, m, k) ==
    IF k <= days_in_month(y, m) THEN k ELSE days_in_month(y, m)

\* r starts on the anchor day k of a month and ends on day k - 1 of the
\* month after it, each day being the month's last day when the month is
\* shorter.
KeepsAnchor(r, k) ==
    /\ r.start_date.day = DayOrLast(r.start_date.year, r.start_date.month, k)
    /\ MonthCount(r.end_date) = MonthCount(r.start_date) + 1
    /\ r.end_date.day = DayOrLast(r.end_date.year, r.end_date.month, k - 1)

\* C22: for an anchor k in 2..31 and the range of
\* MonthlyDateRange::with_end_date_and_start_day(e, k) with e on day k - 1,
\* every range reached by next()/prior() starts on the k-th of a month (or
\* on the month's last day when it is shorter) and ends on the (k - 1)-th of
\* the following month, clamped likewise: the anchor never drifts for good.
C22_MonthlyAnchor ==
    unwrap(this.start_day) # 1 =>
        /\ KeepsAnchor(this, unwrap(this.start_day))
        /\ call \in { "prior()", "next()" } =>
               KeepsAnchor(ret, unwrap(this.start_day))

\* MonthlyDateRange::with_end_date_on_first called with every date of the
\* input window.
InitMonthlyOnFirst ==
    \E d \in InputDates :
        Built("MonthlyDateRange::with_end_date_on_first", << d >>,
              MonthlyDateRange_with_end_date_on_first(d))

SpecMonthlyFirstNav == InitMonthlyOnFirst /\ [][NextNav]_vars

\* r is one whole calendar month, from its 1st to its last day.
WholeMonth(r) ==
    /\ r.start_date = first_day_of_month(r.start_date)
    /\ r.end_date = last_day_of_month(r.start_date)

\* The range returned by next() or prior() is the whole calendar month
\* after or before the month self starts in, and adjacent to self.
ToAdjacentMonth ==
    /\ call = "next()" =>
           /\ WholeMonth(ret)
           /\ MonthCount(ret.start_date) = MonthCount(this.start_date) + 1
    /\ call = "prior()" =>
           /\ WholeMonth(ret)
           /\ MonthCount(ret.start_date) = MonthCount(this.start_date) - 1
    /\ Adjacent

StartsOnFirstOfMonth ==
    call = "MonthlyDateRange::with_end_date_on_first" =>
        this.start_date = first_day_of_month(arg[1])

\* C23: for any end date e, with_end_date_on_first(e) starts on the 1st of
\* e's month, and every range reached from it by next()/prior() is exactly
\* one whole calendar month, consecutive ranges being adjacent months,
\* December to January included.
C23_WholeMonths ==
    /\ StartsOnFirstOfMonth
    /\ pos # 0 => WholeMonth(this)
    /\ ToAdjacentMonth

\* C23 as the code has it: the constructed range is [1st of e's month, e],
\* a whole calendar month when e is the last day of its month, and from a
\* whole calendar month next() and prior() return the whole calendar months
\* after and before it; after a range that ends earlier in its month,
\* next() returns the rest of that month.
C23_WholeMonthsFromMonthEnd ==
    /\ StartsOnFirstOfMonth
    /\ call = "MonthlyDateRange::with_end_date_on_first" =>
           this.end_date = arg[1]
    /\ WholeMonth(this) => ToAdjacentMonth
    /\ call = "next()" =>
           /\ ret.start_date = plus_days(this.end_date, 1)
           /\ ret.end_date = last_day_of_month(ret.start_date)

C23_Witness ==
    /\ call = "next()"
    /\ this.start_day = Some(1)
    /\ this.start_date = Date(2023, 12, 1)
    /\ this.end_date = Date(2023, 12, 31)
    /\ ret.start_date = Date(2024, 1, 1)
    /\ ret.end_date = Date(2024, 1, 31)

SpecSemiMonthlyNav == InitSemiMonthlyValid /\ [][NextNav]_vars

\* The two shapes of a semi-monthly range: the 1st to the 15th of a month,
\* and the 16th to the last day of a month.
FirstHalf(r) ==
    /\ r.start_date = first_day_of_month(r.end_date)
    /\ r.end_date.day = FIFTEENTH_OF_MONTH

SecondHalf(r) ==
    /\ r.start_date.day = FIFTEENTH_OF_MONTH + 1
    /\ r.end_date = last_day_of_month(r.start_date)

LenOfHalfMonth(r) == r.len \in { usize(n) : n \in 13..16 }

\* C24: for SemiMonthlyDateRange::with_end_date(e) with e the 15th or the
\* last day of its month the range is [1st, 15th] or [16th, last day];
\* along any steps of next()/prior() the ranges alternate between the two
\* shapes, each step is adjacent, and len() is always in 13..16.
C24_SemiMonthlyAlternates ==
    /\ FirstHalf(this) \/ SecondHalf(this)
    /\ LenOfHalfMonth(this)
    /\ call = "SemiMonthlyDateRange::with_end_date" =>
           /\ this.end_date = arg[1]
           /\ arg[1].day = FIFTEENTH_OF_MONTH => FirstHalf(this)
           /\ arg[1].day # FIFTEENTH_OF_MONTH => SecondHalf(this)
    /\ call \in { "prior()", "next()" } =>
           /\ FirstHalf(this) => SecondHalf(ret)
           /\ SecondHalf(this) => FirstHalf(ret)
           /\ LenOfHalfMonth(ret)
    /\ Adjacent

C24_Witness ==
    /\ call = "next()"
    /\ this.next_fn = Some("SemiMonthlyDateRange::next")
    /\ this.start_date = Date(2024, 2, 16)
    /\ this.end_date = Date(2024, 2, 29)
    /\ this.len = usize(14)
    /\ ret.start_date = Date(2024, 3, 1)
    /\ ret.end_date = Date(2024, 3, 15)

SpecQuarterlyNav == InitQuarterly /\ [][NextDefaultNav]_vars

\* r is three whole calendar months: from the 1st of a month to the last
\* day of the month two months later.
ThreeMonths(r) ==
    /\ r.start_date = first_day_of_month(r.start_date)
    /\ MonthCount(r.end_date) = MonthCount(r.start_date) + 2
    /\ r.end_date = last_day_of_month(r.end_date)

LenOfQuarter(r) == r.len \in { usize(n) : n \in 89..92 }

InitWeeks ==
    \/ InitWeekly
    \/ InitBiWeekly

SpecWeeks == InitWeeks /\ [][NextNav]_vars

\* e is the earliest date on or after t that falls on the weekday w.
EarliestOnWeekday(e, t, w) ==
    /\ num_days_from_monday(e) = w
    /\ num_days(e, t) \in 0..6
    /\ \A i \in 0..6 :
           num_days_from_monday(plus_days(t, i)) = w => e = plus_days(t, i)

\* C26: WeeklyDateRange::with_target_date(t, w) and
\* BiWeeklyDateRange::with_target_date(t, w) end on the earliest date on or
\* after t that falls on the weekday w, 0..6 days after t; the start is
\* end - 6 days (weekly) or end - 13 days (bi-weekly), len() is 7 or 14, and
\* the range contains t.
C26_TargetDate ==
    /\ call = "WeeklyDateRange::with_target_date" =>
           /\ EarliestOnWeekday(this.end_date, arg[1], arg[2])
           /\ this.start_date = minus_days(this.end_date, 6)
           /\ this.len = usize(7)
           /\ contains_date(this, arg[1])
    /\ call = "BiWeeklyDateRange::with_target_date" =>
           /\ EarliestOnWeekday(this.end_date, arg[1], arg[2])
           /\ this.start_date = minus_days(this.end_date, 13)
           /\ this.len = usize(14)
           /\ contains_date(this, arg[1])

\* 2023-12-01 was a Friday: the week ending on Sunday (6) is 11-27..12-03.
C26_Witness ==
    /\ call = "WeeklyDateRange::with_target_date"
    /\ arg = << Date(2023, 12, 1), 6 >>
    /\ this.start_date = Date(2023, 11, 27)
    /\ this.end_date = Date(2023, 12, 3)

\* ------------------------------------------------------------------------
\* The range of a date, asked of a range and of its neighbours
\* ------------------------------------------------------------------------

\* Every family with the inputs it is made for: any date for the annual,
\* semi-annual, quarterly, weekly and bi-weekly constructors, an end on the
\* day before the anchor day for the monthly ones, an end on the 15th or on
\* the last day of a month for the semi-monthly one.
InitFamilies ==
    \/ InitAnnual
    \/ InitSemiAnnual
    \/ InitQuarterly
    \/ InitMonthlyAnchored
    \/ InitSemiMonthlyValid
    \/ InitWeekly
    \/ InitBiWeekly

\* r.range_containing_date(d) has returned into ret; the client now calls
\* r.prior().range_containing_date(d) for the same d.
RcdFromPrior ==
    /\ pc = "done"
    /\ call = "range_containing_date"
    /\ \E p \in { prior(this) } :
           rcd_range' = create_new_date_range(p, p.start_date, p.end_date)
    /\ rcd_seen' = {}
    /\ call' = "prior().range_containing_date"
    /\ pc' = "rcd"
    /\ UNCHANGED << this, pos, arg, ret, rcd_date >>

\* ... or r.next().range_containing_date(d).
RcdFromNext ==
    /\ pc = "done"
    /\ call = "range_containing_date"
    /\ \E n \in { next(this) } :
           rcd_range' = create_new_date_range(n, n.start_date, n.end_date)
    /\ rcd_seen' = {}
    /\ call' = "next().range_containing_date"
    /\ pc' = "rcd"
    /\ UNCHANGED << this, pos, arg, ret, rcd_date >>

NextRcdFromNeighbour ==
    \/ RcdCall
    \/ RcdLoop
    \/ RcdReturn
    \/ RcdFromPrior
    \/ RcdFromNext

SpecRcdFromNeighbour == InitFamilies /\ [][NextRcdFromNeighbour]_vars

\* C27: for every family, every constructed range r, every range r' reached
\* from r by prior()/next() and every date d, r.range_containing_date(d) and
\* r'.range_containing_date(d) have the same start and the same end.  (ret
\* is what r returned; rcd_range is what the loop started from the
\* neighbour is about to return.)
C27_SameRangeFromNeighbour ==
    /\ call \in { "prior().range_containing_date",
                  "next().range_containing_date" }
    /\ pc = "rcd"
    /\ contains_date(rcd_range, rcd_date)
    => /\ rcd_range.start_date = ret.start_date
       /\ rcd_range.end_date = ret.end_date

\* ------------------------------------------------------------------------
\* What navigation leaves alone
\* ------------------------------------------------------------------------

\* The last days of the months of the input window.
MonthEnds == { d \in InputDates : d = last_day_of_month(d) }

\* A range of every configuration: without navigation functions
\* (DateRange::new, weekly, bi-weekly), with navigation functions (annual,
\* semi-annual, quarterly, semi-monthly), and with a start day as well
\* (monthly).
InitConfigured ==
    \/ InitMonthlyAnchored
    \/ InitSemiMonthlyValid
    \/ \E d \in MonthEnds :
           \/ Built("AnnualDateRange::with_end_date", << d >>,
                    AnnualDateRange_with_end_date(d))
           \/ Built("SemiAnnualDateRange::with_end_date", << d >>,
                    SemiAnnualDateRange_with_end_date(d))
           \/ Built("QuarterlyDateRange::with_end_date", << d >>,
                    QuarterlyDateRange_with_end_date(d))
           \/ Built("WeeklyDateRange::with_end_date", << d >>,
                    WeeklyDateRange_with_end_date(d))
           \/ Built("BiWeeklyDateRange::with_end_date", << d >>,
                    BiWeeklyDateRange_with_end_date(d))
           \/ Built("DateRange::new", << d, plus_days(d, MaxLen - 1) >>,
                    new(d, plus_days(d, MaxLen - 1)))

NextFrame ==
    \/ CallPrior
    \/ CallNext
    \/ CallPriorN
    \/ CallNextN
    \/ CallRangesBefore
    \/ CallRangesBeforeInclusive
    \/ CallRangesAfter
    \/ CallRangesAfterInclusive
    \/ CallRangesWindow
    \/ RcdCall
    \/ RcdLoop
    \/ RcdReturn
    \/ SpanCall
    \/ SpanFirst
    \/ SpanLoop
    \/ SpanReturn

SpecFrame == InitConfigured /\ [][NextFrame]_vars

\* The navigation calls that return one range, and those that return a list.
RangeCalls == { "prior()", "next()", "prior_n", "next_n", "range_containing_date" }

ListCalls ==
    { "ranges_before", "ranges_before_inclusive", "ranges_after",
      "ranges_after_inclusive", "ranges_window", "ranges_containing_span" }

\* x has r's start_day and, as r, has or has not a prior and a next function.
SameConfig(x, r) ==
    /\ x.start_day = r.start_day
    /\ (x.prior_fn = None) <=> (r.prior_fn = None)
    /\ (x.next_fn = None) <=> (r.next_fn = None)

ConfigKept ==
    /\ call \in RangeCalls /\ pc # "rcd" => SameConfig(ret, this)
    /\ call \in ListCalls => \A i \in 1..Len(ret) : SameConfig(ret[i], this)

\* C28: every range returned by prior(), next(), prior_n, next_n,
\* ranges_before(_inclusive), ranges_after(_inclusive), ranges_window,
\* range_containing_date and ranges_containing_span has the start_day() of
\* the range r it was called on, and has a prior/next function exactly when
\* r has one; the call leaves r itself as it was.
C28_Frame ==
    [][ /\ ConfigKept'
        /\ call' \in RangeCalls \cup ListCalls => this' = this ]_vars

C28_Witness ==
    /\ call = "ranges_window"
    /\ arg = << 1, 1 >>
    /\ this.start_day = Some(16)
    /\ this.end_date = Date(2024, 1, 15)
    /\ Len(ret) = 3
    /\ ret[1].start_date = Date(2023, 11, 16)
    /\ ret[1].start_day = Some(16)
    /\ ret[3].end_date = Date(2024, 2, 15)
    /\ ret[3].next_fn = Some("MonthlyDateRange::next")

\* ------------------------------------------------------------------------
\* The two annual constructors, one after the other
\* ------------------------------------------------------------------------

\* AnnualDateRange::with_start_date(r.start_date()) for the range r of
\* with_end_date(e).
CallWithStartDateOfStart ==
    /\ call = "AnnualDateRange::with_end_date"
    /\ Returns("AnnualDateRange::with_start_date(r.start_date())", << >>,
               AnnualDateRange_with_start_date(this.start_date))

\* AnnualDateRange::with_end_date(r.end_date()) for the range r of
\* with_start_date(s).
CallWithEndDateOfEnd ==
    /\ call = "AnnualDateRange::with_start_date"
    /\ Returns("AnnualDateRange::with_end_date(r.end_date())", << >>,
               AnnualDateRange_with_end_date(this.end_date))

NextAgree ==
    \/ CallWithStartDateOfStart
    \/ CallWithEndDateOfEnd

SpecAnnualAgree == InitAnnual /\ [][NextAgree]_vars

EndComesBack ==
    call = "AnnualDateRange::with_start_date(r.start_date())" =>
        ret.end_date = this.end_date

StartComesBack ==
    call = "AnnualDateRange::with_end_date(r.end_date())" =>
        ret.start_date = this.start_date

\* C29: for every end date e, with_start_date(with_end_date(e).start_date())
\* ends on e, and for every start date s,
\* with_end_date(with_start_date(s).end_date()) starts on s, the dates next
\* to Feb 28/29 included.
C29_ConstructorsAgree == EndComesBack /\ StartComesBack

\* C29 as the code has it: the end comes back unless it is Feb 28 of a leap
\* year (no annual range of with_start_date ends there), the start comes
\* back unless it is Mar 1 of a leap year (its range ends on the Feb 28 the
\* range of Feb 29 ends on, and with_end_date returns that one).
C29_ConstructorsAgreeButAtLeapDay ==
    /\ ~EndsBeforeLeapDay(this) => EndComesBack
    /\ ~(this.start_date.month = 3 /\ this.start_date.day = 1
           /\ is_leap_year(this.start_date.year)) => StartComesBack
    /\ call = "AnnualDateRange::with_start_date(r.start_date())"
           /\ this.end_date = Date(2024, 2, 28)
           => ret.end_date = Date(2024, 2, 29)
    /\ call = "AnnualDateRange::with_end_date(r.end_date())"
           /\ this.start_date = Date(2024, 3, 1)
           => ret.start_date = Date(2024, 2, 29)

C29_Witness ==
    /\ call = "AnnualDateRange::with_end_date(r.end_date())"
    /\ this.start_date = Date(2024, 2, 29)
    /\ this.end_date = Date(2025, 2, 28)
    /\ ret.start_date = Date(2024, 2, 29)
    /\ ret.end_date = Date(2025, 2, 28)

\* ------------------------------------------------------------------------
\* Every step goes on
\* ------------------------------------------------------------------------

SpecNav == Init /\ [][NextNav]_vars

\* C30: for every range r with start <= end, built by any family constructor
\* or reached by navigation, r.next() has a strictly later start and a
\* strictly later end than r, and r.prior() a strictly earlier start and a
\* strictly earlier end.
C30_StrictProgress ==
    date_le(this.start_date, this.end_date) =>
        /\ call = "next()" =>
               /\ date_lt(this.start_date, ret.start_date)
               /\ date_lt(this.end_date, ret.end_date)
        /\ call = "prior()" =>
               /\ date_lt(ret.start_date, this.start_date)
               /\ date_lt(ret.end_date, this.end_date)

C30_Witness ==
    /\ call = "next()"
    /\ this.next_fn = Some("SemiMonthlyDateRange::next")
    /\ pos = 1
    /\ this.start_date = Date(2023, 12, 16)
    /\ this.end_date = Date(2023, 12, 31)
    /\ ret.start_date = Date(2024, 1, 1)
    /\ ret.end_date = Date(2024, 1, 15)

====
